---- MODULE Spec2Model ----
(***************************************************************************)
(* terraform-http-backend: the storage directory, the request dispatch and *)
(* the six handlers of src/terraform-http-backend.go.                      *)
(*                                                                         *)
(* The storage directory is a map from file name to file content.  Every   *)
(* worker serves one request at a time; a handler is a sequence of steps,  *)
(* one per filesystem call, so that requests of different workers          *)
(* interleave between the calls exactly as goroutines of net/http do.  The *)
(* arrival of a request and the first call of its handler are one step.    *)
(*                                                                         *)
(* A file name is a sequence whose first element is the stem and whose     *)
(* further elements are its dot-suffixes: "a.lock.tfstate" is              *)
(* <<"a", ".lock", ".tfstate">>.                                           *)
(***************************************************************************)
EXTENDS Integers, Sequences, FiniteSets, TLC

(* ------------------------------ bounds --------------------------------- *)

\* Number of requests that can be in flight at the same time.
NumWorkers == 2

\* Longest request body, in bytes.
MaxLen == 1

\* Number of distinct byte values in a body.
NumBytes == 1

\* The grant counter saturates here.
MaxGrants == 2

(* --------------------------- program constants ------------------------- *)

testFileName == "test_rw"
stateFileExt == ".tfstate"
lockFileExt == ".lock"

StatusOK == 200
StatusCreated == 201
StatusBadRequest == 400
StatusNotFound == 404
StatusMethodNotAllowed == 405
StatusConflict == 409
StatusLocked == 423
StatusInternalServerError == 500

(* ------------------------------ universe ------------------------------- *)

Workers == 1..NumWorkers

\* Two state names, the second chosen so that its stem-and-suffix form is the
\* lock marker of the first: "a" and "a.lock".
Names == {<<"a">>, <<"a", lockFileExt>>}

\* r.PathValue("name") of a request whose path has no name.
EmptyName == <<>>

Bytes == 1..NumBytes
Bodies == UNION {[1..k -> Bytes] : k \in 0..MaxLen}

\* The content of a path that names no file.
NoFile == <<0>>

\* Any method outside the dispatch table is represented by PUT.
Methods == {"GET", "POST", "DELETE", "LOCK", "UNLOCK", "PUT"}

\* The methods of the requests that carry no name: one of the dispatch table
\* and one outside it.
UnnamedMethods == {"GET", "PUT"}
Routes == {"root", "named"}

\* StatePath that keeps only the stem of the name.
StatePathStem(name) == <<Head(name), stateFileExt>>

\* filepath.Join(s.path, name+stateFileExt), relative to the storage directory.
StatePath(name) == Append(name, stateFileExt)

\* filepath.Join(s.path, name+lockFileExt), relative to the storage directory.
LockPath(name) == Append(name, lockFileExt)

Paths == {StatePath(n) : n \in Names} \cup {LockPath(n) : n \in Names}

VARIABLES
    files,      \* the storage directory: path -> content, or NoFile
    req,        \* per worker: the request in flight and the handler step it is at
    resp,       \* the response sent by the last step, NoResponse when it sent none
    serial,     \* TRUE: clients issue one request at a time; FALSE: requests overlap
    history,    \* which of last and lastPost the run keeps: "none", "last", "lastPost";
                \* "off": it keeps neither, and no count of grants
    nonEmpty,   \* TRUE: the clients post no empty body
    last,       \* history: the request answered last
    granted,    \* history: per name, LOCKs answered 200 since the last UNLOCK answered 200
    lastPost    \* history: per name, body of the last POST answered 200/201 since the
                \* last DELETE answered 200, or NoFile

vars == <<files, req, resp, serial, history, nonEmpty, last, granted, lastPost>>

(* ------------------------------ Storage -------------------------------- *)

\* The lock marker of name is in the storage.
HasLock(name) == files[LockPath(name)] # NoFile

\* The content of name in the storage, NoFile when it has none.
Content(name) == files[StatePath(name)]

\* isLocked with the check left out.
isLockedNever(name) == FALSE

\* Storage.isLocked: the lock file exists (the storage holds no directories).
isLocked(name) == files[LockPath(name)] # NoFile

\* Storage.exists: the state file exists.
exists(name) == files[StatePath(name)] # NoFile

(* ------------------------ requests and responses ----------------------- *)

\* pc: the handler step the worker is at; status: the header written so far,
\* 0 when none; unlinked: the file this request holds open for writing was
\* removed meanwhile; preContent, preLock (serial runs): the content and the
\* lock of the request's name when the request arrived.
NoRequest ==
    [route |-> "named", method |-> "GET", name |-> EmptyName, body |-> <<>>,
     pc |-> "idle", status |-> 0, unlinked |-> FALSE,
     preContent |-> NoFile, preLock |-> FALSE]

NoSummary == [route |-> "named", method |-> "GET", name |-> EmptyName, status |-> 0]

\* status 0: no response.  out: the bytes handleGet wrote; roster: the states
\* allStates encoded; faulted: a system call of the request failed for a
\* reason outside the storage (permissions, disk, connection); prev: the
\* request answered before this one, when the run keeps it.
NoResponse ==
    [route |-> "named", method |-> "GET", name |-> EmptyName, body |-> <<>>,
     status |-> 0, out |-> <<>>, roster |-> <<>>, faulted |-> FALSE,
     preContent |-> NoFile, preLock |-> FALSE, prev |-> NoSummary]

\* http.ResponseWriter.WriteHeader: the first status written stands.
WriteHeader(r, code) == IF r.status = 0 THEN [r EXCEPT !.status = code] ELSE r

\* http.Error(w, text, code): writes the header, then the text.
HttpError(r, code) == WriteHeader(r, code)

\* The handler returns: a response without a written header is 200.
Return(r, out, roster, faulted) ==
    [route |-> r.route, method |-> r.method, name |-> r.name, body |-> r.body,
     status |-> WriteHeader(r, StatusOK).status, out |-> out, roster |-> roster,
     faulted |-> faulted, preContent |-> r.preContent, preLock |-> r.preLock,
     prev |-> last]

Summary(a) == [route |-> a.route, method |-> a.method, name |-> a.name, status |-> a.status]

Min(a, b) == IF a < b THEN a ELSE b

Is(a, method, code) == a.route = "named" /\ a.method = method /\ a.status = code

\* History kept when response a is sent.
Record(a) ==
    /\ granted' =
         IF history = "off"
         THEN granted
         ELSE IF Is(a, "LOCK", StatusOK)
         THEN [granted EXCEPT ![a.name] = Min(@ + 1, MaxGrants)]
         ELSE IF Is(a, "UNLOCK", StatusOK)
         THEN [granted EXCEPT ![a.name] = 0]
         ELSE granted
    /\ lastPost' =
         IF history = "lastPost" /\ (Is(a, "POST", StatusOK) \/ Is(a, "POST", StatusCreated))
         THEN [lastPost EXCEPT ![a.name] = a.body]
         ELSE IF history = "lastPost" /\ Is(a, "DELETE", StatusOK)
         THEN [lastPost EXCEPT ![a.name] = NoFile]
         ELSE lastPost
    /\ last' = IF history = "last" THEN Summary(a) ELSE last

\* Worker w goes on to the handler step of r; nothing is sent.
Continue(w, r) ==
    /\ req' = [req EXCEPT ![w] = r]
    /\ resp' = NoResponse
    /\ UNCHANGED <<granted, lastPost, last>>

\* Worker w sends response a and is free again.
Reply(w, a) ==
    /\ req' = [req EXCEPT ![w] = NoRequest]
    /\ resp' = a
    /\ Record(a)

\* The request r answered with an error.
Error(r, code, faulted) == Return(HttpError(r, code), <<>>, <<>>, faulted)

\* The request r answered with no body.
Ok(r) == Return(r, <<>>, <<>>, FALSE)

(* ------------------------------ handleGet ------------------------------ *)

\* Storage.handleGet: os.ReadFile, then the data is written to the response.
handleGet(w, r) ==
    \E fault \in BOOLEAN :
       IF files[StatePath(r.name)] = NoFile
       THEN Reply(w, Error(r, StatusNotFound, FALSE))
       ELSE IF fault
       THEN Reply(w, Error(r, StatusInternalServerError, TRUE))
       ELSE Reply(w, Return(r, files[StatePath(r.name)], <<>>, FALSE))

(* ------------------------------ handlePost ----------------------------- *)

\* f.Write(data) on a file opened at offset 0: the first Len(data) bytes are
\* replaced, what lies behind them stays.
WriteAt(old, data) == data \o SubSeq(old, Len(data) + 1, Len(old))

\* handlePost without the isLocked check.
handlePostUnchecked(w, r) == Continue(w, [r EXCEPT !.pc = "postBody"])

\* Storage.handlePost, the isLocked check.
handlePost(w, r) ==
    IF isLocked(r.name)
    THEN Reply(w, Error(r, StatusLocked, FALSE))
    ELSE Continue(w, [r EXCEPT !.pc = "postBody"])

\* Storage.handlePost, io.ReadAll of the body and the exists check that
\* writes the 201 header.
postBody(w) ==
    /\ req[w].pc = "postBody"
    /\ \E fault \in BOOLEAN :
         IF fault
         THEN Reply(w, Error(req[w], StatusBadRequest, TRUE))
         ELSE IF ~exists(req[w].name)
         THEN Continue(w, [WriteHeader(req[w], StatusCreated) EXCEPT !.pc = "postOpen"])
         ELSE Continue(w, [req[w] EXCEPT !.pc = "postOpen"])
    /\ UNCHANGED <<files, serial, history, nonEmpty>>

\* postOpen with O_TRUNC left out: a file that exists keeps its bytes.
postOpenNoTrunc(w) ==
    /\ req[w].pc = "postOpen"
    /\ \E fault \in BOOLEAN :
         IF fault
         THEN /\ Reply(w, Error(req[w], StatusInternalServerError, TRUE))
              /\ UNCHANGED files
         ELSE /\ files' = [files EXCEPT ![StatePath(req[w].name)] =
                                          IF @ = NoFile THEN <<>> ELSE @]
              /\ Continue(w, [req[w] EXCEPT !.pc = "postWrite"])
    /\ UNCHANGED <<serial, history, nonEmpty>>

\* os.WriteFile, its OpenFile(O_WRONLY|O_CREATE|O_TRUNC): the file is created
\* or emptied; fault: the open fails and the file is as before.
postOpen(w) ==
    /\ req[w].pc = "postOpen"
    /\ \E fault \in BOOLEAN :
         IF fault
         THEN /\ Reply(w, Error(req[w], StatusInternalServerError, TRUE))
              /\ UNCHANGED files
         ELSE /\ files' = [files EXCEPT ![StatePath(req[w].name)] = <<>>]
              /\ Continue(w, [req[w] EXCEPT !.pc = "postWrite"])
    /\ UNCHANGED <<serial, history, nonEmpty>>

\* os.WriteFile, its f.Write and f.Close: k bytes of the body reach the file,
\* all of them unless the call fails.  A file removed since the open is
\* written to no more (the bytes go to the unlinked file).
postWrite(w) ==
    /\ req[w].pc = "postWrite"
    /\ \E fault \in BOOLEAN, k \in 0..Len(req[w].body) :
         /\ ~fault => k = Len(req[w].body)
         /\ files' = IF req[w].unlinked
                     THEN files
                     ELSE [files EXCEPT ![StatePath(req[w].name)] =
                                           WriteAt(@, SubSeq(req[w].body, 1, k))]
         /\ IF fault
            THEN Reply(w, Error(req[w], StatusInternalServerError, TRUE))
            ELSE Reply(w, Ok(req[w]))
    /\ UNCHANGED <<serial, history, nonEmpty>>

(* ------------------------------ handleDelete --------------------------- *)

\* Storage.handleDelete, the isLocked check.
handleDelete(w, r) ==
    IF isLocked(r.name)
    THEN Reply(w, Error(r, StatusLocked, FALSE))
    ELSE Continue(w, [r EXCEPT !.pc = "deleteRemove"])

\* The request r once the state file of name is removed.
Unlink(r, name) ==
    IF r.pc = "postWrite" /\ r.name = name THEN [r EXCEPT !.unlinked = TRUE] ELSE r

\* deleteRemove that removes the lock file with the state file.
deleteRemoveAll(w) ==
    /\ req[w].pc = "deleteRemove"
    /\ files[StatePath(req[w].name)] # NoFile
    /\ files' = [files EXCEPT ![StatePath(req[w].name)] = NoFile,
                              ![LockPath(req[w].name)] = NoFile]
    /\ Reply(w, Ok(req[w]))
    /\ UNCHANGED <<serial, history, nonEmpty>>

\* Storage.handleDelete, os.Remove of the state file: an error when the file
\* does not exist, or on fault.
deleteRemove(w) ==
    /\ req[w].pc = "deleteRemove"
    /\ \E fault \in BOOLEAN :
         IF files[StatePath(req[w].name)] = NoFile
         THEN /\ Reply(w, Error(req[w], StatusInternalServerError, FALSE))
              /\ UNCHANGED files
         ELSE IF fault
         THEN /\ Reply(w, Error(req[w], StatusInternalServerError, TRUE))
              /\ UNCHANGED files
         ELSE /\ files' = [files EXCEPT ![StatePath(req[w].name)] = NoFile]
              /\ req' = [v \in Workers |->
                           IF v = w THEN NoRequest ELSE Unlink(req[v], req[w].name)]
              /\ resp' = Ok(req[w])
              /\ Record(Ok(req[w]))
    /\ UNCHANGED <<serial, history, nonEmpty>>

(* ------------------------------ handleLock ----------------------------- *)

\* handleLock that waits for the lock to be released.
handleLockWaits(w, r) ==
    IF isLocked(r.name)
    THEN Continue(w, [r EXCEPT !.pc = "lockWait"])
    ELSE Continue(w, [r EXCEPT !.pc = "lockCreate"])

\* Storage.handleLock, the isLocked check.
handleLock(w, r) ==
    IF isLocked(r.name)
    THEN Reply(w, Error(r, StatusLocked, FALSE))
    ELSE Continue(w, [r EXCEPT !.pc = "lockCreate"])

\* lockCreate that creates the state file with the lock file.
lockCreateBoth(w) ==
    /\ req[w].pc = "lockCreate"
    /\ files' = [files EXCEPT ![LockPath(req[w].name)] = <<>>,
                              ![StatePath(req[w].name)] = <<>>]
    /\ Reply(w, Ok(req[w]))
    /\ UNCHANGED <<serial, history, nonEmpty>>

\* Storage.handleLock, os.Create of the lock file (created, or emptied when
\* it exists); fault: the call fails and nothing is created.
lockCreate(w) ==
    /\ req[w].pc = "lockCreate"
    /\ \E fault \in BOOLEAN :
         IF fault
         THEN /\ Reply(w, Error(req[w], StatusInternalServerError, TRUE))
              /\ UNCHANGED files
         ELSE /\ files' = [files EXCEPT ![LockPath(req[w].name)] = <<>>]
              /\ Reply(w, Ok(req[w]))
    /\ UNCHANGED <<serial, history, nonEmpty>>

(* ------------------------------ handleUnlock --------------------------- *)

\* Storage.handleUnlock, the isLocked check.
handleUnlock(w, r) ==
    IF ~isLocked(r.name)
    THEN Reply(w, Error(r, StatusConflict, FALSE))
    ELSE Continue(w, [r EXCEPT !.pc = "unlockRemove"])

\* unlockRemove answering without removing the lock file.
unlockRemoveKeeps(w) ==
    /\ req[w].pc = "unlockRemove"
    /\ Reply(w, Ok(req[w]))
    /\ UNCHANGED <<files, serial, history, nonEmpty>>

\* Storage.handleUnlock, os.Remove of the lock file: an error when the file
\* is gone (removed by a concurrent UNLOCK), or on fault.
unlockRemove(w) ==
    /\ req[w].pc = "unlockRemove"
    /\ \E fault \in BOOLEAN :
         IF files[LockPath(req[w].name)] = NoFile
         THEN /\ Reply(w, Error(req[w], StatusInternalServerError, FALSE))
              /\ UNCHANGED files
         ELSE IF fault
         THEN /\ Reply(w, Error(req[w], StatusInternalServerError, TRUE))
              /\ UNCHANGED files
         ELSE /\ files' = [files EXCEPT ![LockPath(req[w].name)] = NoFile]
              /\ Reply(w, Ok(req[w]))
    /\ UNCHANGED <<serial, history, nonEmpty>>

(* ------------------------------ allStates ------------------------------ *)

\* filepath.Ext of a file name: its last dot-suffix, "" when it has none.
Ext(file) == IF Len(file) >= 2 THEN file[Len(file)] ELSE ""

\* strings.TrimSuffix(file, filepath.Ext(file)).
TrimExt(file) == IF Len(file) >= 2 THEN SubSeq(file, 1, Len(file) - 1) ELSE file

\* States.State: whether the list holds a state of that name.
StatesHas(states, name) == \E i \in 1..Len(states) : states[i].name = name

\* States.Add: appends an unlocked state; an error when the name is listed.
StatesAdd(states, name) ==
    IF StatesHas(states, name)
    THEN [states |-> states, err |-> TRUE]
    ELSE [states |-> Append(states, [name |-> name, locked |-> FALSE]), err |-> FALSE]

\* States.Lock that finds the state and does not mark it.
StatesLockForgets(states, name) ==
    [states |-> states, err |-> ~StatesHas(states, name)]

\* States.Lock that passes over a name that is not listed.
StatesLockLenient(states, name) ==
    IF ~StatesHas(states, name)
    THEN [states |-> states, err |-> FALSE]
    ELSE LET i == CHOOSE j \in 1..Len(states) : states[j].name = name
         IN  [states |-> [states EXCEPT ![i].locked = TRUE], err |-> states[i].locked]

\* States.Lock with State.Lock: marks the state of that name locked; an error
\* when the name is not listed or the state is locked already.
StatesLock(states, name) ==
    IF ~StatesHas(states, name)
    THEN [states |-> states, err |-> TRUE]
    ELSE LET i == CHOOSE j \in 1..Len(states) : states[j].name = name
         IN  IF states[i].locked
             THEN [states |-> states, err |-> TRUE]
             ELSE [states |-> [states EXCEPT ![i].locked = TRUE], err |-> FALSE]

\* The action processEntries is called with: states.Add or states.Lock.
Apply(action, states, name) ==
    IF action = "Add" THEN StatesAdd(states, name) ELSE StatesLock(states, name)

\* processEntries: applies the action to the name of every entry with the
\* extension, in the order of the entries, and stops at the first error.
RECURSIVE processEntries(_, _, _, _)
processEntries(entries, ext, action, states) ==
    IF entries = <<>>
    THEN [states |-> states, err |-> FALSE]
    ELSE IF Ext(Head(entries)) = ext
    THEN LET done == Apply(action, states, TrimExt(Head(entries)))
         IN  IF done.err
             THEN done
             ELSE processEntries(Tail(entries), ext, action, done.states)
    ELSE processEntries(Tail(entries), ext, action, states)

\* Every order of the elements of a set.
RECURSIVE Orders(_)
Orders(set) ==
    IF set = {}
    THEN {<<>>}
    ELSE UNION {{<<x>> \o rest : rest \in Orders(set \ {x})} : x \in set}

\* dir.ReadDir(0): the files of the storage directory, in any order.
ReadDir == Orders({p \in Paths : files[p] # NoFile})

\* Storage.allStates after ReadDir: the states are added, then locked.
Roster(entries) ==
    LET added == processEntries(entries, stateFileExt, "Add", <<>>)
    IN  IF added.err THEN added
        ELSE processEntries(entries, lockFileExt, "Lock", added.states)

\* Storage.allStates: one reading of the directory; fault: os.Open or ReadDir
\* fails.
allStates(w, r) ==
    \E fault \in BOOLEAN, listed \in {Roster(entries) : entries \in ReadDir} :
       IF fault \/ listed.err
       THEN Reply(w, Error(r, StatusInternalServerError, fault))
       ELSE Reply(w, Return(r, <<>>, listed.states, FALSE))

(* ------------------------------ dispatch ------------------------------- *)

\* Storage.handleState: the name is checked, the handler is looked up by the
\* method and called.
handleState(w, r) ==
    IF r.name = EmptyName
    THEN Reply(w, Error(r, StatusBadRequest, FALSE))
    ELSE CASE r.method = "GET" -> handleGet(w, r)
           [] r.method = "POST" -> handlePost(w, r)
           [] r.method = "DELETE" -> handleDelete(w, r)
           [] r.method = "LOCK" -> handleLock(w, r)
           [] r.method = "UNLOCK" -> handleUnlock(w, r)
           [] OTHER -> Reply(w, Error(r, StatusMethodNotAllowed, FALSE))

\* Run's routes: "/" -> allStates (any method), "/{name}" -> handleState.
Serve(w, r) == IF r.route = "root" THEN allStates(w, r) ELSE handleState(w, r)

\* A request arrives at a free worker and its handler runs up to its first
\* system call.  In a serial run it arrives only when no other request is in
\* flight.
Begin(w) ==
    /\ req[w].pc = "idle"
    /\ serial => \A v \in Workers : req[v].pc = "idle"
    /\ \E route \in Routes, method \in Methods, name \in Names \cup {EmptyName}, body \in Bodies :
         /\ route = "root" => name = EmptyName
         /\ name = EmptyName => method \in UnnamedMethods
         /\ method # "POST" => body = <<>>
         /\ nonEmpty /\ method = "POST" => body # <<>>
         /\ Serve(w, [NoRequest EXCEPT
                        !.route = route, !.method = method, !.name = name, !.body = body,
                        !.preContent = IF serial /\ name \in Names
                                       THEN Content(name) ELSE NoFile,
                        !.preLock = IF serial /\ name \in Names
                                    THEN HasLock(name) ELSE FALSE])
    /\ UNCHANGED <<files, serial, history, nonEmpty>>

(* ------------------------------ NewStorage ----------------------------- *)

\* The mark a restart leaves in the history of a run that keeps the request
\* answered last.
Booted == [NoSummary EXCEPT !.route = "boot"]

\* NewStorage on a directory it clears.
NewStorageWipes == files' = [p \in Paths |-> NoFile]

\* NewStorage: the storage directory exists already; the file testFileName is
\* created in it and removed again.  <<testFileName>> is none of Paths (it has
\* no suffix), so every file of the storage is as before.  Storage holds the
\* path of the directory and nothing else.
NewStorage == files' = [p \in Paths |-> IF p = <<testFileName>> THEN NoFile ELSE files[p]]

\* The service stops (or is killed) while no request is in flight and is
\* started again: Run calls NewStorage and registers the routes.
Restart ==
    /\ \A w \in Workers : req[w].pc = "idle"
    /\ NewStorage
    /\ req' = [w \in Workers |-> NoRequest]
    /\ resp' = NoResponse
    /\ last' = IF history = "last" THEN Booted ELSE last
    /\ UNCHANGED <<granted, lastPost, serial, history, nonEmpty>>

(* ------------------------------ specification -------------------------- *)
\* The service is started on an empty storage directory.
Started ==
    /\ files = [p \in Paths |-> NoFile]
    /\ req = [w \in Workers |-> NoRequest]
    /\ resp = NoResponse
    /\ last = NoSummary
    /\ granted = [n \in Names |-> 0]
    /\ lastPost = [n \in Names |-> NoFile]

\* Requests of different clients overlap.
Init == Started /\ serial = FALSE /\ history = "none" /\ nonEmpty = FALSE

\* One request at a time.
SeqInit == Started /\ serial = TRUE /\ history = "none" /\ nonEmpty = FALSE

\* One request at a time; the request answered last is kept.
SeqLastInit == Started /\ serial = TRUE /\ history = "last" /\ nonEmpty = FALSE

\* One request at a time; the last body posted to each name is kept.
SeqPostInit == Started /\ serial = TRUE /\ history = "lastPost" /\ nonEmpty = FALSE

\* Requests of different clients overlap; no client posts an empty body.
WholeInit == Started /\ serial = FALSE /\ history = "none" /\ nonEmpty = TRUE

\* Requests of different clients overlap; no history is kept.
FairInit == Started /\ serial = FALSE /\ history = "off" /\ nonEmpty = TRUE

Step(w) ==
    \/ postBody(w)
    \/ postOpen(w)
    \/ postWrite(w)
    \/ deleteRemove(w)
    \/ lockCreate(w)
    \/ unlockRemove(w)

Next == \E w \in Workers : Begin(w) \/ Step(w)

Spec == Init /\ [][Next]_vars

SeqSpec == SeqInit /\ [][Next]_vars

SeqLastSpec == SeqLastInit /\ [][Next]_vars

SeqPostSpec == SeqPostInit /\ [][Next]_vars

WholeSpec == WholeInit /\ [][Next]_vars

\* Requests overlap, and every handler that is at a system call gets to make
\* it: the goroutine of a request is scheduled and its system call returns.
FairSpec == FairInit /\ [][Next]_vars /\ \A w \in Workers : WF_vars(Step(w))

\* One request at a time, the request answered last is kept, and the service
\* is restarted between requests.
RestartNext == Next \/ Restart

RestartSpec == SeqLastInit /\ [][RestartNext]_vars

(* ------------------------------ claims --------------------------------- *)

\* The response sent by the last step answers a request with this method on
\* a name.
Answered(method) ==
    resp.status # 0 /\ resp.route = "named" /\ resp.method = method /\ resp.name \in Names

\* The response sent by the last step answers a request on the root path.
Listed == resp.status # 0 /\ resp.route = "root"

\* Some lock marker has no content of the same name.
OrphanLock == \E n \in Names : HasLock(n) /\ Content(n) = NoFile

\* C1: mutual exclusion of the lock.  Under every interleaving of requests,
\* at most one LOCK on a name is answered 200 between two UNLOCKs of that
\* name answered 200.
C1_MutualExclusion == \A n \in Names : granted[n] <= 1

\* C2: the lock protects the content.  Under every interleaving, no step
\* writes or removes the content of a name while the lock marker of that name
\* exists.
C2_LockProtectsContent ==
    [][\A n \in Names : HasLock(n) => files'[StatePath(n)] = files[StatePath(n)]]_vars

\* C3: sequential LOCK.  With requests issued one at a time and os.Create not
\* failing, a LOCK on a name without lock marker is answered 200 and the name
\* is locked afterwards, whatever its content (none included); a LOCK on a
\* name with a lock marker is answered 423 and leaves marker and content as
\* they were.
C3_SequentialLock ==
    Answered("LOCK") /\ ~resp.faulted =>
        IF resp.preLock
        THEN /\ resp.status = StatusLocked
             /\ HasLock(resp.name)
             /\ Content(resp.name) = resp.preContent
        ELSE /\ resp.status = StatusOK
             /\ HasLock(resp.name)

\* A second LOCK on a locked name that has content is refused.
C3_Witness ==
    /\ serial
    /\ Answered("LOCK") /\ resp.preLock /\ resp.preContent # NoFile
    /\ resp.status = StatusLocked

\* C4: sequential UNLOCK.  With requests issued one at a time and os.Remove
\* not failing, an UNLOCK on a locked name is answered 200 and removes the
\* marker, and the LOCK on that name issued right after it is answered 200;
\* an UNLOCK on a name that is not locked (never created included) is
\* answered 409 and changes neither marker nor content.
C4_SequentialUnlock ==
    /\ Answered("UNLOCK") /\ ~resp.faulted =>
          IF resp.preLock
          THEN /\ resp.status = StatusOK
               /\ ~HasLock(resp.name)
          ELSE /\ resp.status = StatusConflict
               /\ ~HasLock(resp.name)
               /\ Content(resp.name) = resp.preContent
    /\ Answered("LOCK") /\ ~resp.faulted
          /\ resp.prev = [route |-> "named", method |-> "UNLOCK",
                          name |-> resp.name, status |-> StatusOK]
          => resp.status = StatusOK

\* A LOCK answered 200 right after an UNLOCK of the same name answered 200.
C4_Witness ==
    /\ history = "last"
    /\ Answered("LOCK") /\ resp.status = StatusOK
    /\ resp.prev = [route |-> "named", method |-> "UNLOCK",
                    name |-> resp.name, status |-> StatusOK]

\* C5: rejected mutation while locked.  With requests issued one at a time,
\* every POST (any body) and every DELETE on a name with a lock marker is
\* answered 423, and content (present or absent) and marker are afterwards
\* as before.
C5_RejectedWhileLocked ==
    (Answered("POST") \/ Answered("DELETE")) /\ resp.preLock =>
        /\ resp.status = StatusLocked
        /\ Content(resp.name) = resp.preContent
        /\ HasLock(resp.name)

\* A POST on a locked name with content, with a body other than the content.
C5_Witness ==
    /\ serial
    /\ Answered("POST") /\ resp.preLock /\ resp.status = StatusLocked
    /\ resp.preContent # NoFile /\ resp.body # resp.preContent

\* C6: create-or-replace.  With requests issued one at a time and the body
\* read and written without failure, a POST with body B on an unlocked name
\* is answered 201 when the name had no content and 200 when it had, and the
\* content of the name is B afterwards.
C6_CreateOrReplace ==
    Answered("POST") /\ ~resp.preLock /\ ~resp.faulted =>
        /\ resp.status = IF resp.preContent = NoFile THEN StatusCreated ELSE StatusOK
        /\ Content(resp.name) = resp.body

\* A POST that replaces a longer content by a shorter body.
C6_Witness ==
    /\ serial
    /\ Answered("POST") /\ ~resp.preLock /\ ~resp.faulted
    /\ resp.preContent # NoFile /\ Len(resp.body) < Len(resp.preContent)
    /\ resp.status = StatusOK

\* C7: round trip over a sequential history.  After any sequence of requests
\* issued one at a time, a GET on a name is answered 404 when no POST on the
\* name was answered 200 or 201 since the last DELETE answered 200, and
\* otherwise 200 with the body of the last such POST.
C7_RoundTrip ==
    Answered("GET") /\ ~resp.faulted /\ history = "lastPost" =>
        IF lastPost[resp.name] = NoFile
        THEN resp.status = StatusNotFound
        ELSE resp.status = StatusOK /\ resp.out = lastPost[resp.name]

\* C8: idempotent delete.  With requests issued one at a time, a DELETE on an
\* unlocked name without content is answered 200.
C8_IdempotentDelete ==
    Answered("DELETE") /\ serial /\ ~resp.preLock /\ resp.preContent = NoFile
        /\ ~resp.faulted
        => resp.status = StatusOK

\* The names in a roster.
RosterNames(roster) == {roster[i].name : i \in 1..Len(roster)}

\* C9: the roster.  With requests issued one at a time, when every lock
\* marker has a content of the same name and the directory is read without
\* failure, GET / is answered 200 with a roster that holds exactly the names
\* with content, each once, each with locked true exactly when the name has a
\* lock marker.
C9_Roster ==
    Listed /\ resp.method = "GET" /\ serial /\ ~resp.faulted /\ ~OrphanLock =>
        /\ resp.status = StatusOK
        /\ RosterNames(resp.roster) = {n \in Names : Content(n) # NoFile}
        /\ Len(resp.roster) = Cardinality({n \in Names : Content(n) # NoFile})
        /\ \A i \in 1..Len(resp.roster) :
              resp.roster[i].locked = HasLock(resp.roster[i].name)

\* A roster of two names, one locked and one not.
C9_Witness ==
    /\ Listed /\ resp.method = "GET" /\ serial /\ resp.status = StatusOK
    /\ Len(resp.roster) = 2
    /\ \E i, j \in 1..2 : resp.roster[i].locked /\ ~resp.roster[j].locked

\* C10: the list fails on an orphan lock.  Whenever a lock marker has no
\* content of the same name, a request on / is answered 500 without a roster;
\* and no request on / changes the storage.
C10_ListFailsOnOrphanLock ==
    [][resp'.status # 0 /\ resp'.route = "root" =>
          /\ files' = files
          /\ OrphanLock => resp'.status = StatusInternalServerError /\ resp'.roster = <<>>
      ]_vars

\* GET / answered 500, with no failure of a system call, while a name that
\* was never created is locked and another name has content.
C10_Witness ==
    /\ Listed /\ resp.method = "GET" /\ ~resp.faulted
    /\ resp.status = StatusInternalServerError
    /\ OrphanLock
    /\ \E n \in Names : Content(n) # NoFile

\* The methods of the handler table of handleState.
Accepted == {"GET", "POST", "DELETE", "LOCK", "UNLOCK"}

\* C11: dispatch.  A request with a method outside the handler table is
\* answered 405 on the root path and on every named path and changes nothing
\* in the storage; a request on the named route with an empty name is
\* answered 400; a request with a method of the table on a name is never
\* answered 405.
C11_Dispatch ==
    [][resp'.status # 0 =>
          /\ resp'.method \notin Accepted /\ (resp'.route = "root" \/ resp'.name \in Names)
                => resp'.status = StatusMethodNotAllowed /\ files' = files
          /\ resp'.route = "named" /\ resp'.name = EmptyName
                => resp'.status = StatusBadRequest /\ files' = files
          /\ resp'.route = "named" /\ resp'.name \in Names /\ resp'.method \in Accepted
                => resp'.status # StatusMethodNotAllowed
      ]_vars

\* C12: a write failure is reported.  When os.WriteFile of a POST on an
\* unlocked name fails, at the open or at the write, the request is answered
\* 500, whether the name had content before or not.
C12_WriteFailureReported ==
    [][\A w \in Workers :
          /\ req[w].pc \in {"postOpen", "postWrite"}
          /\ req'[w].pc = "idle"
          /\ resp'.faulted
          => resp'.status = StatusInternalServerError
      ]_vars

\* The response sent by the last step is the one the handlers give, with no
\* system call failing, to a request that arrived on this content and lock.
AsWithoutRestart ==
    /\ Answered("GET") =>
          IF resp.preContent = NoFile
          THEN resp.status = StatusNotFound
          ELSE resp.status = StatusOK /\ resp.out = resp.preContent
    /\ Answered("POST") =>
          IF resp.preLock
          THEN resp.status = StatusLocked /\ Content(resp.name) = resp.preContent
          ELSE /\ resp.status = IF resp.preContent = NoFile THEN StatusCreated ELSE StatusOK
               /\ Content(resp.name) = resp.body
    /\ Answered("DELETE") =>
          IF resp.preLock
          THEN resp.status = StatusLocked /\ Content(resp.name) = resp.preContent
          ELSE /\ resp.status = IF resp.preContent = NoFile
                                THEN StatusInternalServerError ELSE StatusOK
               /\ Content(resp.name) = NoFile
    /\ Answered("LOCK") =>
          /\ resp.status = IF resp.preLock THEN StatusLocked ELSE StatusOK
          /\ HasLock(resp.name)
          /\ Content(resp.name) = resp.preContent
    /\ Answered("UNLOCK") =>
          /\ resp.status = IF resp.preLock THEN StatusOK ELSE StatusConflict
          /\ ~HasLock(resp.name)
          /\ Content(resp.name) = resp.preContent
    /\ Listed =>
          resp.status = IF OrphanLock THEN StatusInternalServerError ELSE StatusOK

\* C13: restart safety.  A restart of the service between requests leaves
\* every content and every lock marker as it was, and the first request
\* answered after a restart (no system call failing) gets the response and
\* has the effect that the content and the lock at its arrival determine,
\* the same as a request answered with no restart before it.
C13_RestartSafety ==
    /\ [][(\A w \in Workers : req[w].pc = "idle") /\ last' = Booted /\ resp'.status = 0
             => files' = files]_vars
    /\ [](resp.status # 0 /\ ~resp.faulted /\ history = "last" => AsWithoutRestart)

\* The first request after a restart is a LOCK on a name that was locked
\* before the restart, and it is refused.
C13_Witness ==
    /\ Answered("LOCK") /\ resp.prev = Booted
    /\ resp.preLock /\ resp.preContent # NoFile
    /\ resp.status = StatusLocked

\* C14: created is reported once.  Under every interleaving of POSTs on an
\* unlocked name, the POST that has written the 201 header is the one whose
\* open of the state file makes the name exist, and a POST that has written
\* no header (and is answered 200 when its write succeeds) opens a file that
\* exists.
C14_CreatedOnce ==
    [][\A w \in Workers :
          req[w].pc = "postOpen" /\ req'[w].pc = "postWrite"
          => (req[w].status = StatusCreated <=> ~exists(req[w].name))
      ]_vars

\* The step is the last one of a request of this method on name n, answered
\* with this status.
Answers(method, n, code) ==
    /\ resp'.status = code
    /\ resp'.route = "named" /\ resp'.method = method /\ resp'.name = n

\* C16: life of the lock marker.  Under every interleaving, the lock marker
\* of a name comes to exist only in the step that answers a LOCK on that name
\* with 200 and ceases to exist only in the step that answers an UNLOCK on
\* that name with 200; every other step (of GET, POST, DELETE, LOCK, UNLOCK
\* and list requests on any name) leaves it as it is.
C16_LockLifecycle ==
    [][\A n \in Names :
          /\ ~HasLock(n) /\ HasLock(n)' => Answers("LOCK", n, StatusOK)
          /\ HasLock(n) /\ ~HasLock(n)' => Answers("UNLOCK", n, StatusOK)
      ]_vars

\* A DELETE that passed the lock check before the name was locked removes the
\* content, and the lock marker is still there.
C16_Witness ==
    /\ Answered("DELETE") /\ resp.status = StatusOK
    /\ HasLock(resp.name) /\ granted[resp.name] = 1

\* The files of a name: its content and its lock marker.
Artifacts(n) == {StatePath(n), LockPath(n)}

\* Worker w takes the step: it goes on to its next system call or answers.
Acts(w) == req'[w].pc # req[w].pc

\* C17: independence of names.  No two names share a file: the content of
\* one name is neither the content nor the lock marker of another.  With
\* requests issued one at a time, every step of a request on a name (GET,
\* POST, DELETE, LOCK, UNLOCK, answered with success or not) leaves the
\* content and the lock marker of every other name as they are, and the
\* response of a request with no failing system call is the one that the
\* content and the lock of its own name at its arrival determine.
C17_Independence ==
    /\ [](\A n, m \in Names : n # m => Artifacts(n) \cap Artifacts(m) = {})
    /\ [](\A n \in Names : StatePath(n) # LockPath(n))
    /\ [][\A w \in Workers, m \in Names :
             Acts(w) /\ req[w].name # m /\ req[w].pc # "idle"
             => \A p \in Artifacts(m) : files'[p] = files[p]]_vars
    /\ [][resp'.status # 0 /\ resp'.route = "named"
             => \A m \in Names \ {resp'.name} :
                   \A p \in Artifacts(m) : files'[p] = files[p]]_vars
    /\ [](resp.status # 0 /\ resp.route = "named" /\ ~resp.faulted /\ serial => AsWithoutRestart)

\* A POST on "a.lock" is answered 201 while "a" is locked and has content:
\* the lock marker of "a" neither refuses it nor is changed by it.
C17_Witness ==
    /\ serial
    /\ Answered("POST") /\ resp.name = <<"a", lockFileExt>> /\ resp.status = StatusCreated
    /\ HasLock(<<"a">>) /\ Content(<<"a">>) # NoFile /\ ~HasLock(resp.name)
    /\ Content(resp.name) = resp.body

\* C18: content and lock are separate.  Under every interleaving, no step of
\* a GET, a list, a LOCK or an UNLOCK creates, changes or removes a content;
\* every step of a POST or DELETE on a name changes no file but the content
\* of that name; the storage after a GET or a list is the storage before it.
C18_ContentLockSeparate ==
    [][/\ \A w \in Workers :
            /\ Acts(w) /\ req[w].pc \in {"lockCreate", "unlockRemove"}
                  => \A n \in Names : files'[StatePath(n)] = files[StatePath(n)]
            /\ Acts(w) /\ req[w].pc \in {"postBody", "postOpen", "postWrite", "deleteRemove"}
                  => \A p \in Paths \ {StatePath(req[w].name)} : files'[p] = files[p]
       /\ resp'.status # 0 /\ (resp'.route = "root" \/ resp'.method = "GET") => files' = files
       /\ resp'.status # 0 /\ resp'.route = "named" /\ resp'.method \in {"LOCK", "UNLOCK"}
             => \A n \in Names : files'[StatePath(n)] = files[StatePath(n)]
       /\ resp'.status # 0 /\ resp'.route = "named" /\ resp'.method \in {"POST", "DELETE"}
             => \A p \in Paths \ {StatePath(resp'.name)} : files'[p] = files[p]
      ]_vars

\* A LOCK is answered 200 on a name without content while the other request
\* in flight is a POST that has opened its file: no content appears for the
\* locked name.
C18_Witness ==
    /\ Answered("LOCK") /\ resp.status = StatusOK /\ Content(resp.name) = NoFile
    /\ \E w \in Workers : req[w].pc = "postWrite" /\ req[w].name # resp.name

\* The bodies the clients post when they post no empty body.
WholeBodies == Bodies \ {<<>>}

\* C15: whole-body visibility.  With clients that post no empty body, every
\* GET on a name answered 200, also one that overlaps POSTs on the name,
\* returns the complete body of a POST (never an empty or cut one); and when
\* a POST is answered with success, its write has not failed, its file was
\* not removed meanwhile and no other POST on the name is still writing, the
\* content of the name is the body of that POST.
C15_WholeBody ==
    /\ [](Answered("GET") /\ resp.status = StatusOK /\ nonEmpty => resp.out \in WholeBodies)
    /\ [][\A w \in Workers :
             /\ req[w].pc = "postWrite" /\ req'[w].pc = "idle"
             /\ ~req[w].unlinked /\ ~resp'.faulted
             /\ \A v \in Workers \ {w} :
                   ~(req[v].pc \in {"postOpen", "postWrite"} /\ req[v].name = req[w].name)
             => files'[StatePath(req[w].name)] = req[w].body]_vars

\* The request answered before the one answered by the last step had this
\* method on the same name and was answered with this status.
Repeats(method, code) ==
    /\ Answered(method)
    /\ resp.prev = [route |-> "named", method |-> method, name |-> resp.name, status |-> code]

\* The request on the name left content and lock marker as they were.
Untouched == Content(resp.name) = resp.preContent /\ HasLock(resp.name) = resp.preLock

\* C19: retry idempotence.  With requests issued one at a time and no system
\* call of the repeated request failing: a GET, DELETE or POST (with the body
\* that the first one stored) that directly follows the same request on the
\* same name leaves content and lock marker as the first one left them, and
\* so does a list that follows a list; the repeated GET, DELETE and list are
\* answered with the status of the first, the repeated POST with 200 after
\* 201 or 200, and a repeated request refused with 423 is refused again.
C19_RetryIdempotence ==
    resp.status # 0 /\ ~resp.faulted /\ history = "last" =>
        /\ \A code \in {StatusOK, StatusNotFound} :
              Repeats("GET", code) => Untouched /\ resp.status = code
        /\ \A code \in {StatusOK, StatusLocked} :
              Repeats("DELETE", code) => Untouched /\ resp.status = code
        /\ \A code \in {StatusOK, StatusCreated} :
              Repeats("POST", code) /\ resp.body = resp.preContent
                 => Untouched /\ resp.status = StatusOK
        /\ Repeats("POST", StatusLocked) => Untouched /\ resp.status = StatusLocked
        /\ Listed /\ resp.prev.route = "root" /\ resp.prev.status = StatusOK
              => resp.status = StatusOK

\* The statuses of the operation table.
Statuses ==
    {StatusOK, StatusCreated, StatusBadRequest, StatusNotFound, StatusMethodNotAllowed,
     StatusConflict, StatusLocked, StatusInternalServerError}

\* C20: every request completes without waiting.  Under every interleaving,
\* a request in flight is eventually answered; its handler can take its next
\* step whatever the other requests do; the step in which it ends sends one
\* response, for that request, with a status of the operation table; and a
\* request answered 423 is answered in the step in which it arrives.
C20_Completes ==
    /\ \A w \in Workers : (req[w].pc # "idle") ~> (req[w].pc = "idle")
    /\ [](\A w \in Workers : req[w].pc # "idle" => ENABLED Step(w))
    /\ [](resp.status = 0 \/ resp.status \in Statuses)
    /\ [][\A w \in Workers :
             req[w].pc # "idle" /\ req'[w].pc = "idle"
             => /\ resp'.status \in Statuses
                /\ resp'.method = req[w].method /\ resp'.name = req[w].name]_vars
    /\ [][resp'.status = StatusLocked => \A w \in Workers : req'[w].pc = req[w].pc]_vars

\* A LOCK is refused with 423 while the other request in flight, a POST on
\* the same name, is between its system calls.
C20_Witness ==
    /\ Answered("LOCK") /\ resp.status = StatusLocked
    /\ \E w \in Workers :
          req[w].pc = "postWrite" /\ req[w].name = resp.name /\ req[w].method = "POST"

====
